---- MODULE Spec2Model ----
(***************************************************************************)
(* scripts/count-lines.py: the code-size audit.  main() checks that src/   *)
(* exists, scan_files() walks it with os.walk, filters file names, counts  *)
(* lines and sorts, build_stats() folds the list into per-category         *)
(* statistics.  Python strings are modelled as sequences of one-character  *)
(* strings, so that `in`, endswith and replace are computed on characters. *)
(***************************************************************************)
EXTENDS Integers, Sequences, FiniteSets, TLC

\* ------------------------------------------------------------ bounds
\* most files a modelled tree holds
MaxFiles == 2
\* most directory segments between "src" and the file name of a path handed
\* to categorize_file on its own
MaxDepth == 3
\* largest line count handed to FileInfo.status on its own
MaxLines == 520

\* ------------------------------------------------------------ constants
CRITICAL_THRESHOLD == 500
WARNING_THRESHOLD == 400

\* ------------------------------------------------------------ string literals of the source
f_ipc == <<"/", "i", "p", "c", "/">>
f_store == <<"/", "s", "t", "o", "r", "e", "/">>
f_stores == <<"/", "s", "t", "o", "r", "e", "s", "/">>
f_pages == <<"/", "p", "a", "g", "e", "s", "/">>
f_main_services == <<"/", "m", "a", "i", "n", "/", "s", "e", "r", "v", "i", "c", "e", "s", "/">>
f_components == <<"/", "c", "o", "m", "p", "o", "n", "e", "n", "t", "s", "/">>
f_useSmartSearchWorkflow == <<"u", "s", "e", "S", "m", "a", "r", "t", "S", "e", "a", "r", "c", "h", "W", "o", "r", "k", "f", "l", "o", "w">>
f_preload == <<"/", "p", "r", "e", "l", "o", "a", "d", "/">>
f_shared == <<"/", "s", "h", "a", "r", "e", "d", "/">>
f_renderer == <<"/", "r", "e", "n", "d", "e", "r", "e", "r", "/">>
f_main == <<"/", "m", "a", "i", "n", "/">>
p_spec == <<".", "s", "p", "e", "c", ".">>
p_test == <<".", "t", "e", "s", "t", ".">>
p_tests == <<"_", "_", "t", "e", "s", "t", "s", "_", "_">>
p_mocks == <<"_", "_", "m", "o", "c", "k", "s", "_", "_">>
e_ts == <<".", "t", "s">>
e_tsx == <<".", "t", "s", "x">>
s_src == <<"s", "r", "c">>
s_node_modules == <<"n", "o", "d", "e", "_", "m", "o", "d", "u", "l", "e", "s">>
s_dist == <<"d", "i", "s", "t">>
s_git == <<".", "g", "i", "t">>

\* ------------------------------------------------------------ names the modelled trees and paths use
s_main == <<"m", "a", "i", "n">>
s_services == <<"s", "e", "r", "v", "i", "c", "e", "s">>
s_pkg == <<"p", "k", "g">>
s_components == <<"c", "o", "m", "p", "o", "n", "e", "n", "t", "s">>
s_tests == <<"_", "_", "t", "e", "s", "t", "s", "_", "_">>
s_ipc == <<"i", "p", "c">>
s_store == <<"s", "t", "o", "r", "e">>
s_stores == <<"s", "t", "o", "r", "e", "s">>
s_pages == <<"p", "a", "g", "e", "s">>
s_preload == <<"p", "r", "e", "l", "o", "a", "d">>
s_shared == <<"s", "h", "a", "r", "e", "d">>
s_renderer == <<"r", "e", "n", "d", "e", "r", "e", "r">>
s_lib == <<"l", "i", "b">>
n_foo_ts == <<"f", "o", "o", ".", "t", "s">>
n_Bar_tsx == <<"B", "a", "r", ".", "t", "s", "x">>
n_Bar_spec_tsx == <<"B", "a", "r", ".", "s", "p", "e", "c", ".", "t", "s", "x">>
n_index_ts == <<"i", "n", "d", "e", "x", ".", "t", "s">>
n_x_ts == <<"x", ".", "t", "s">>
n_readme_md == <<"r", "e", "a", "d", "m", "e", ".", "m", "d">>
n_a_ts == <<"a", ".", "t", "s">>
n_t_ts == <<"t", ".", "t", "s">>
n_ipc_test_ts == <<"i", "p", "c", ".", "t", "e", "s", "t", ".", "t", "s">>
n_hook_ts == <<"u", "s", "e", "S", "m", "a", "r", "t", "S", "e", "a", "r", "c", "h", "W", "o", "r", "k", "f", "l", "o", "w", ".", "t", "s">>

\* ------------------------------------------------------------ str operations
\* needle in hay
Contains(needle, hay) ==
    \E i \in 0..(Len(hay) - Len(needle)) :
        \A j \in 1..Len(needle) : hay[i + j] = needle[j]

\* s.endswith(suffix)
EndsWith(s, suffix) ==
    /\ Len(suffix) <= Len(s)
    /\ \A j \in 1..Len(suffix) : s[Len(s) - Len(suffix) + j] = suffix[j]

\* s.replace(old, new) for one-character old and new
Replace(s, old, new) == [i \in 1..Len(s) |-> IF s[i] = old THEN new ELSE s[i]]

\* ------------------------------------------------------------ FileInfo.status
\* mutant: the thresholds themselves count as exceeded
status_inclusive(lines) ==
    IF lines >= CRITICAL_THRESHOLD THEN "critical"
    ELSE IF lines >= WARNING_THRESHOLD THEN "warning"
    ELSE "good"

status(lines) ==
    IF lines > CRITICAL_THRESHOLD THEN "critical"
    ELSE IF lines > WARNING_THRESHOLD THEN "warning"
    ELSE "good"

\* ------------------------------------------------------------ categorize_file
\* mutant: "/main/" is tested before "/main/services/"
categorize_file_main_first(rel_path) ==
    LET parts == Replace(rel_path, "\\", "/") IN
    IF Contains(f_ipc, parts) THEN "IPC Handlers"
    ELSE IF Contains(f_store, parts) \/ Contains(f_stores, parts) THEN "Stores"
    ELSE IF Contains(f_pages, parts) THEN "Pages"
    ELSE IF Contains(f_main, parts) THEN "Main Other"
    ELSE IF Contains(f_main_services, parts) THEN "Main Services"
    ELSE IF Contains(f_components, parts) \/ Contains(f_useSmartSearchWorkflow, parts)
         THEN "Renderer Components"
    ELSE IF Contains(f_preload, parts) THEN "Preload"
    ELSE IF Contains(f_shared, parts) THEN "Shared"
    ELSE IF Contains(f_renderer, parts) THEN "Renderer Other"
    ELSE "Other"

categorize_file(rel_path) ==
    LET parts == Replace(rel_path, "\\", "/") IN
    IF Contains(f_ipc, parts) THEN "IPC Handlers"
    ELSE IF Contains(f_store, parts) \/ Contains(f_stores, parts) THEN "Stores"
    ELSE IF Contains(f_pages, parts) THEN "Pages"
    ELSE IF Contains(f_main_services, parts) THEN "Main Services"
    ELSE IF Contains(f_components, parts) \/ Contains(f_useSmartSearchWorkflow, parts)
         THEN "Renderer Components"
    ELSE IF Contains(f_preload, parts) THEN "Preload"
    ELSE IF Contains(f_shared, parts) THEN "Shared"
    ELSE IF Contains(f_renderer, parts) THEN "Renderer Other"
    ELSE IF Contains(f_main, parts) THEN "Main Other"
    ELSE "Other"

\* ------------------------------------------------------------ the tree under the project root
\* The directories a modelled tree holds: DirTable[d] is directory d's name and
\* its parent (0: the project root, the parent of src/).  Directory 1 is src/.
DirTable == <<
    [name |-> s_src,          parent |-> 0],    \* 1  src
    [name |-> s_main,         parent |-> 1],    \* 2  src/main
    [name |-> s_services,     parent |-> 2],    \* 3  src/main/services
    [name |-> s_dist,         parent |-> 2],    \* 4  src/main/dist
    [name |-> s_git,          parent |-> 2],    \* 5  src/main/.git
    [name |-> s_node_modules, parent |-> 1],    \* 6  src/node_modules
    [name |-> s_pkg,          parent |-> 6],    \* 7  src/node_modules/pkg
    [name |-> s_components,   parent |-> 1],    \* 8  src/components
    [name |-> s_tests,        parent |-> 8] >>  \* 9  src/components/__tests__

DirIds == DOMAIN DirTable
src_dir == 1

\* The places a file may be at: FileTable[s] is its name and its directory.
FileTable == <<
    [name |-> n_foo_ts,       dir |-> 3],   \* 1  src/main/services/foo.ts
    [name |-> n_Bar_tsx,      dir |-> 8],   \* 2  src/components/Bar.tsx
    [name |-> n_Bar_spec_tsx, dir |-> 8],   \* 3  src/components/Bar.spec.tsx
    [name |-> n_index_ts,     dir |-> 7],   \* 4  src/node_modules/pkg/index.ts
    [name |-> n_x_ts,         dir |-> 4],   \* 5  src/main/dist/x.ts
    [name |-> n_readme_md,    dir |-> 1],   \* 6  src/readme.md
    [name |-> n_a_ts,         dir |-> 1],   \* 7  src/a.ts
    [name |-> n_t_ts,         dir |-> 9],   \* 8  src/components/__tests__/t.ts
    [name |-> n_ipc_test_ts,  dir |-> 2] >> \* 9  src/main/ipc.test.ts

FileSlots == DOMAIN FileTable

\* What a file holds: bytes, or nothing that open() can reach ("EACCES": no
\* permission, or the file is gone by the time it is opened).
Newlines(n) == [i \in 1..n |-> "\n"]

ContentTable ==
    [kind \in {"L400", "L500", "L501", "BIN"} |->
        CASE kind = "L400" -> Newlines(400)
          [] kind = "L500" -> Newlines(499) \o <<"x">>
          [] kind = "L501" -> Newlines(501)
          [] OTHER         -> <<"xFF", "\n", "xFE", "a", "\n", "xFF">>]

Bytes(kind) == ContentTable[kind]

InodeKinds == {"L400", "L500", "L501", "BIN", "EACCES"}

VARIABLES
    fs,          \* the tree: [root, sep, inode]; never written by the program
    pc,          \* main's position
    stack,       \* os.walk's pending directories, next first
    files,       \* scan_files' list
    discovered,  \* history: the FileInfo in the order they were appended
    visited,     \* history: the directories os.walk listed
    opened,      \* history: the file slots count_lines was called on
    stats,       \* build_stats' dict
    idx,         \* build_stats' position in files
    output,      \* what main hands to presentation: None or [files, categories]
    exit_code,   \* None while running
    run,         \* which invocation of main this is
    prev,        \* the previous invocation's output
    call         \* a function called on its own: [fn, arg, ret]

vars == <<fs, pc, stack, files, discovered, visited, opened, stats, idx, output,
          exit_code, run, prev, call>>

None == "None"

\* ------------------------------------------------------------ paths
RECURSIVE DirSegments(_)
DirSegments(d) == IF d = 0 THEN <<>> ELSE Append(DirSegments(DirTable[d].parent), DirTable[d].name)

RECURSIVE Join(_, _)
Join(segs, sep) ==
    IF Len(segs) = 0 THEN <<>>
    ELSE IF Len(segs) = 1 THEN segs[1]
    ELSE segs[1] \o <<sep>> \o Join(Tail(segs), sep)

\* str(filepath.relative_to(src_dir.parent)), with the platform's separator
RelPathTable ==
    [sp \in {"/", "\\"} |->
        [slot \in FileSlots |->
            Join(Append(DirSegments(FileTable[slot].dir), FileTable[slot].name), sp)]]

rel_path_of(slot) == RelPathTable[fs.sep][slot]

\* ------------------------------------------------------------ count_lines
\* open(file_path, "r", encoding="utf-8", errors="ignore"): an OSError, or a
\* handle on what the file holds
open_file(slot) ==
    IF fs.inode[slot] = "EACCES"
    THEN [exc |-> "OSError", content |-> None]
    ELSE [exc |-> None, content |-> fs.inode[slot]]

\* errors="ignore": the bytes that are no UTF-8 are dropped
IsUtf8(b) == b \notin {"xFF", "xFE"}
decode_ignore(bytes) == SelectSeq(bytes, IsUtf8)

\* sum(1 for _ in f): the terminated lines, and a last one without terminator
line_iter_count(text) ==
    Cardinality({i \in DOMAIN text : text[i] = "\n"})
    + (IF Len(text) > 0 /\ text[Len(text)] # "\n" THEN 1 ELSE 0)

\* line 144 on each content, computed once
LinesRead == [kind \in DOMAIN ContentTable |-> line_iter_count(decode_ignore(Bytes(kind)))]

\* mutant: the OSError of open() is not caught
count_lines_uncaught(slot) ==
    LET f == open_file(slot) IN
    IF f.exc = "OSError"
    THEN [exc |-> "OSError", value |-> 0]
    ELSE [exc |-> None, value |-> LinesRead[f.content]]

count_lines(slot) ==
    LET f == open_file(slot) IN
    IF f.exc = "OSError"
    THEN [exc |-> None, value |-> 0]
    ELSE [exc |-> None, value |-> LinesRead[f.content]]

\* ------------------------------------------------------------ scan_files
exclude_patterns == {p_spec, p_test, p_tests, p_mocks}

\* mutant: the test on exclude_patterns is missing
eligible_by_extension(filename) ==
    EndsWith(filename, e_ts) \/ EndsWith(filename, e_tsx)

\* lines 159-162: the two `continue` tests on a file name
eligible(filename) ==
    /\ EndsWith(filename, e_ts) \/ EndsWith(filename, e_tsx)
    /\ ~ \E p \in exclude_patterns : Contains(p, filename)

Eligible(slot) == eligible(FileTable[slot].name)

\* line 156: dirs[:] = [d for d in dirs if d not in (...)]
NotExcludedDir(d) == DirTable[d].name \notin {s_node_modules, s_dist, s_git}
\* mutant: .git is not in the tuple
NotNodeModulesOrDist(d) == DirTable[d].name \notin {s_node_modules, s_dist}
prune_dirs_without_git(dirs) == SelectSeq(dirs, NotNodeModulesOrDist)

prune_dirs(dirs) == SelectSeq(dirs, NotExcludedDir)

FileInfo(slot, lines) ==
    [path |-> rel_path_of(slot), lines |-> lines, category |-> categorize_file(rel_path_of(slot))]

\* files.sort(key=lambda f: f.lines, reverse=True): stable, largest first
RECURSIVE insert_desc(_, _)
insert_desc(sorted, x) ==
    IF Len(sorted) = 0 THEN <<x>>
    ELSE IF Head(sorted).lines >= x.lines
         THEN <<Head(sorted)>> \o insert_desc(Tail(sorted), x)
         ELSE <<x>> \o sorted

\* mutant: sorted smallest first and then reversed, which turns ties around
RECURSIVE insert_asc(_, _)
insert_asc(sorted, x) ==
    IF Len(sorted) = 0 THEN <<x>>
    ELSE IF Head(sorted).lines <= x.lines
         THEN <<Head(sorted)>> \o insert_asc(Tail(sorted), x)
         ELSE <<x>> \o sorted

RECURSIVE sort_by_lines_asc(_)
sort_by_lines_asc(xs) ==
    IF Len(xs) = 0 THEN <<>>
    ELSE insert_asc(sort_by_lines_asc(SubSeq(xs, 1, Len(xs) - 1)), xs[Len(xs)])

sort_asc_then_reverse(xs) ==
    LET asc == sort_by_lines_asc(xs) IN [i \in 1..Len(asc) |-> asc[Len(asc) + 1 - i]]

RECURSIVE sort_by_lines_desc(_)
sort_by_lines_desc(xs) ==
    IF Len(xs) = 0 THEN <<>>
    ELSE insert_desc(sort_by_lines_desc(SubSeq(xs, 1, Len(xs) - 1)), xs[Len(xs)])

\* the orders os.scandir may hand a set of entries out in
Orders(S) == {o \in [1..Cardinality(S) -> S] : \A i, j \in DOMAIN o : i # j => o[i] # o[j]}

SubDirs(d) == {c \in DirIds : DirTable[c].parent = d}
FilesIn(d) == {s \in DOMAIN fs.inode : FileTable[s].dir = d}
IsDir(d) == d # src_dir \/ fs.root = "dir"

\* ------------------------------------------------------------ build_stats
EmptyDict == [c \in {} |-> None]

CategoryStats(name) ==
    [name |-> name, total_files |-> 0, critical |-> 0, warning |-> 0, good |-> 0,
     total_lines |-> 0, files |-> <<>>]

\* mutant: the CategoryStats is made anew for every file
fold_file_always_new(st, f) ==
    LET cat == CategoryStats(f.category)
        upd == [cat EXCEPT !.total_files = @ + 1,
                           !.total_lines = @ + f.lines,
                           !.files = Append(@, f),
                           !.critical = IF f.lines > CRITICAL_THRESHOLD THEN @ + 1 ELSE @,
                           !.warning = IF f.lines <= CRITICAL_THRESHOLD /\ f.lines > WARNING_THRESHOLD
                                       THEN @ + 1 ELSE @,
                           !.good = IF f.lines <= CRITICAL_THRESHOLD /\ f.lines <= WARNING_THRESHOLD
                                    THEN @ + 1 ELSE @]
    IN [c \in DOMAIN st \cup {f.category} |-> IF c = f.category THEN upd ELSE st[c]]

\* mutant: the counters take the thresholds themselves as exceeded
fold_file_inclusive(st, f) ==
    LET cat == IF f.category \in DOMAIN st THEN st[f.category] ELSE CategoryStats(f.category)
        upd == [cat EXCEPT !.total_files = @ + 1,
                           !.total_lines = @ + f.lines,
                           !.files = Append(@, f),
                           !.critical = IF f.lines >= CRITICAL_THRESHOLD THEN @ + 1 ELSE @,
                           !.warning = IF f.lines < CRITICAL_THRESHOLD /\ f.lines >= WARNING_THRESHOLD
                                       THEN @ + 1 ELSE @,
                           !.good = IF f.lines < CRITICAL_THRESHOLD /\ f.lines < WARNING_THRESHOLD
                                    THEN @ + 1 ELSE @]
    IN [c \in DOMAIN st \cup {f.category} |-> IF c = f.category THEN upd ELSE st[c]]

\* lines 183-196: one iteration of the loop, on dict st and FileInfo f
fold_file(st, f) ==
    LET cat == IF f.category \in DOMAIN st THEN st[f.category] ELSE CategoryStats(f.category)
        upd == [cat EXCEPT !.total_files = @ + 1,
                           !.total_lines = @ + f.lines,
                           !.files = Append(@, f),
                           !.critical = IF f.lines > CRITICAL_THRESHOLD THEN @ + 1 ELSE @,
                           !.warning = IF f.lines <= CRITICAL_THRESHOLD /\ f.lines > WARNING_THRESHOLD
                                       THEN @ + 1 ELSE @,
                           !.good = IF f.lines <= CRITICAL_THRESHOLD /\ f.lines <= WARNING_THRESHOLD
                                    THEN @ + 1 ELSE @]
    IN [c \in DOMAIN st \cup {f.category} |-> IF c = f.category THEN upd ELSE st[c]]

\* ------------------------------------------------------------ the trees a run may meet
Trees ==
    {[root |-> r, sep |-> "/", inode |-> EmptyDict] : r \in {"missing", "file"}}
    \cup
    {[root |-> "dir", sep |-> sp, inode |-> ino] :
        sp \in {"/", "\\"},
        ino \in UNION {[S -> InodeKinds] : S \in {T \in SUBSET FileSlots : Cardinality(T) <= MaxFiles}}}

NoCall == [fn |-> None, arg |-> None, ret |-> None]

Init ==
    /\ fs \in Trees
    /\ pc = "main"
    /\ stack = <<>>
    /\ files = <<>>
    /\ discovered = <<>>
    /\ visited = {}
    /\ opened = {}
    /\ stats = EmptyDict
    /\ idx = 1
    /\ output = None
    /\ exit_code = None
    /\ run = 1
    /\ prev = None
    /\ call = NoCall

\* ------------------------------------------------------------ main
\* lines 362-369: the check of src/, and the call of scan_files
MainStart ==
    /\ pc = "main"
    /\ IF fs.root = "missing"
       THEN /\ pc' = "exited"
            /\ exit_code' = 1
            /\ stack' = stack
       ELSE /\ pc' = "walk"
            /\ exit_code' = exit_code
            /\ stack' = <<src_dir>>
    /\ UNCHANGED <<fs, files, discovered, visited, opened, stats, idx, output, run, prev, call>>

\* lines 154-175: one directory of os.walk(src_dir), top down, and, when it was
\* the last one, the sort and the return into main's call of build_stats.
\* os.walk swallows the error of listing something that is no directory.
WalkStep ==
    /\ pc = "walk"
    /\ stack # <<>>
    /\ LET top == Head(stack) IN
       \E dirs \in Orders(IF IsDir(top) THEN SubDirs(top) ELSE {}),
          filenames \in Orders(IF IsDir(top) THEN FilesIn(top) ELSE {}) :
          LET kept     == prune_dirs(dirs)
              wanted   == SelectSeq(filenames, Eligible)
              counts   == [i \in DOMAIN wanted |-> count_lines(wanted[i])]
              raised   == \E i \in DOMAIN counts : counts[i].exc # None
              infos    == [i \in DOMAIN wanted |-> FileInfo(wanted[i], counts[i].value)]
              newStack == kept \o Tail(stack)
          IN
          /\ visited' = IF IsDir(top) THEN visited \cup {top} ELSE visited
          /\ opened' = opened \cup {wanted[i] : i \in DOMAIN wanted}
          /\ IF raised
             THEN /\ pc' = "crashed"
                  /\ exit_code' = 1
                  /\ UNCHANGED <<stack, files, discovered>>
             ELSE /\ stack' = newStack
                  /\ discovered' = discovered \o infos
                  /\ exit_code' = exit_code
                  /\ IF newStack = <<>>
                     THEN /\ files' = sort_by_lines_desc(files \o infos)
                          /\ pc' = "build_stats"
                     ELSE /\ files' = files \o infos
                          /\ pc' = "walk"
    /\ UNCHANGED <<fs, stats, idx, output, run, prev, call>>

\* lines 182-196: one iteration of build_stats' loop
BuildStatsStep ==
    /\ pc = "build_stats"
    /\ idx <= Len(files)
    /\ stats' = fold_file(stats, files[idx])
    /\ idx' = idx + 1
    /\ UNCHANGED <<fs, pc, stack, files, discovered, visited, opened, output, exit_code,
                   run, prev, call>>

\* line 198 and main's lines 370-405: the dict is returned and the list and
\* the dict go to the printers
BuildStatsReturn ==
    /\ pc = "build_stats"
    /\ idx > Len(files)
    /\ output' = [files |-> files, categories |-> stats]
    /\ pc' = "done"
    /\ exit_code' = 0
    /\ UNCHANGED <<fs, stack, files, discovered, visited, opened, stats, idx, run, prev, call>>

Next == MainStart \/ WalkStep \/ BuildStatsStep \/ BuildStatsReturn

Spec == Init /\ [][Next]_vars

\* ------------------------------------------------------------ a second invocation
\* The script is run again on the tree as it is.
Rescan ==
    /\ pc = "done"
    /\ run = 1
    /\ run' = 2
    /\ prev' = output
    /\ pc' = "main"
    /\ stack' = <<>>
    /\ files' = <<>>
    /\ discovered' = <<>>
    /\ visited' = {}
    /\ opened' = {}
    /\ stats' = EmptyDict
    /\ idx' = 1
    /\ output' = None
    /\ exit_code' = None
    /\ UNCHANGED <<fs, call>>

NextTwice == MainStart \/ WalkStep \/ BuildStatsStep \/ BuildStatsReturn \/ Rescan

SpecTwice == Init /\ [][NextTwice]_vars

\* ------------------------------------------------------------ the two pure functions, called on their own
\* the directory names a path handed to categorize_file is built from
Segments == {s_ipc, s_store, s_stores, s_pages, s_main, s_services, s_components,
             s_preload, s_shared, s_renderer, s_lib}

SegmentSeqs == UNION {[1..n -> Segments] : n \in 0..MaxDepth}

PathInputs ==
    {Join(<<s_src>> \o segs \o <<name>>, sp) :
        segs \in SegmentSeqs, name \in {n_x_ts, n_hook_ts}, sp \in {"/", "\\"}}

FnInit ==
    /\ call \in {[fn |-> "status", arg |-> n, ret |-> None] : n \in 0..MaxLines}
                \cup {[fn |-> "categorize_file", arg |-> p, ret |-> None] : p \in PathInputs}
    /\ fs = [root |-> "missing", sep |-> "/", inode |-> EmptyDict]
    /\ pc = "idle"
    /\ stack = <<>>
    /\ files = <<>>
    /\ discovered = <<>>
    /\ visited = {}
    /\ opened = {}
    /\ stats = EmptyDict
    /\ idx = 1
    /\ output = None
    /\ exit_code = None
    /\ run = 1
    /\ prev = None

CallStatus ==
    /\ call.fn = "status"
    /\ call.ret = None
    /\ call' = [call EXCEPT !.ret = status(call.arg)]
    /\ UNCHANGED <<fs, pc, stack, files, discovered, visited, opened, stats, idx, output,
                   exit_code, run, prev>>

CallCategorize ==
    /\ call.fn = "categorize_file"
    /\ call.ret = None
    /\ call' = [call EXCEPT !.ret = categorize_file(call.arg)]
    /\ UNCHANGED <<fs, pc, stack, files, discovered, visited, opened, stats, idx, output,
                   exit_code, run, prev>>

FnNext == CallStatus \/ CallCategorize

FnSpec == FnInit /\ [][FnNext]_vars

\* ============================================================ claims
\* what the claims read
Present == DOMAIN fs.inode
Returned == pc \in {"build_stats", "done"}
Paths(seq) == {seq[i].path : i \in DOMAIN seq}
PositionsOf(seq, x) == {i \in DOMAIN seq : seq[i] = x}

RECURSIVE AncestorsOrSelf(_)
AncestorsOrSelf(d) == IF d = 0 THEN {} ELSE {d} \cup AncestorsOrSelf(DirTable[d].parent)

\* d is, or lies below, a directory below src/ named node_modules, dist or .git
InExcludedDir(d) ==
    \E a \in AncestorsOrSelf(d) \ {src_dir} :
        DirTable[a].name \in {s_node_modules, s_dist, s_git}

RECURSIVE SumTotalFiles(_, _)
SumTotalFiles(cats, keys) ==
    IF keys = {} THEN 0
    ELSE LET k == CHOOSE k \in keys : TRUE
         IN cats[k].total_files + SumTotalFiles(cats, keys \ {k})

\* C1: after scan_files and build_stats every FileInfo of the list is in the
\* member list of exactly one CategoryStats, the one keyed by its category,
\* and there once; no member list holds a FileInfo that is not in the list;
\* and the total_files of all categories add up to the length of the list.
C1_Totality ==
    pc = "done" =>
        LET fl == output.files
            cats == output.categories
        IN /\ \A i \in DOMAIN fl :
                 /\ fl[i].category \in DOMAIN cats
                 /\ Cardinality(PositionsOf(cats[fl[i].category].files, fl[i])) = 1
                 /\ \A c \in DOMAIN cats \ {fl[i].category} :
                        PositionsOf(cats[c].files, fl[i]) = {}
           /\ \A c \in DOMAIN cats : \A j \in DOMAIN cats[c].files :
                 PositionsOf(fl, cats[c].files[j]) # {}
           /\ SumTotalFiles(cats, DOMAIN cats) = Len(fl)

\* two files of one category and one of another went through the fold
C1_Witness ==
    /\ pc = "done"
    /\ Len(output.files) = 2
    /\ \E c \in DOMAIN output.categories : output.categories[c].total_files = 2

\* C2: FileInfo.status is critical iff lines > 500, warning iff
\* 400 < lines <= 500, good iff lines <= 400: one of the three, for every
\* line count.
C2_StatusPartition ==
    (call.fn = "status" /\ call.ret # None) =>
        /\ call.ret \in {"good", "warning", "critical"}
        /\ call.ret = "critical" <=> call.arg > CRITICAL_THRESHOLD
        /\ call.ret = "warning" <=> (WARNING_THRESHOLD < call.arg /\ call.arg <= CRITICAL_THRESHOLD)
        /\ call.ret = "good" <=> call.arg <= WARNING_THRESHOLD

\* a file of exactly 500 lines got its status
C2_Witness == call.fn = "status" /\ call.arg = CRITICAL_THRESHOLD /\ call.ret = "warning"

\* C3: during and after build_stats' fold every CategoryStats has
\* total_files = critical + warning + good = the number of its members, and
\* each of the three counters is the number of members with that status.
C3_CounterPartition ==
    Returned =>
        \A c \in DOMAIN stats :
            LET st == stats[c]
                n(which) == Cardinality({j \in DOMAIN st.files : status(st.files[j].lines) = which})
            IN /\ st.total_files = st.critical + st.warning + st.good
               /\ st.total_files = Len(st.files)
               /\ st.critical = n("critical")
               /\ st.warning = n("warning")
               /\ st.good = n("good")

\* the fold is half way, with a file of the warning zone counted
C3_Witness ==
    /\ pc = "build_stats"
    /\ idx = 2
    /\ Len(files) = 2
    /\ \E c \in DOMAIN stats : stats[c].warning = 1 /\ stats[c].total_files = 1

\* C4: when src/ is missing or is no directory, no scan is attempted and
\* nothing is handed to presentation.
C4_NoScanWithoutDirectory ==
    fs.root # "dir" => (pc \notin {"walk", "build_stats", "done"} /\ output = None)

\* C5: every file of scan_files' list has a name that ends with .ts or .tsx
\* and contains none of .spec., .test., __tests__, __mocks__.
C5_ExclusionCorrectness ==
    \A s \in Present :
        rel_path_of(s) \in Paths(files) \cup Paths(discovered) =>
            LET name == FileTable[s].name
            IN /\ EndsWith(name, e_ts) \/ EndsWith(name, e_tsx)
               /\ ~Contains(p_spec, name)
               /\ ~Contains(p_test, name)
               /\ ~Contains(p_tests, name)
               /\ ~Contains(p_mocks, name)

\* Bar.spec.tsx stood beside Bar.tsx in a directory that was scanned, and
\* only Bar.tsx was returned
C5_Witness ==
    /\ pc = "done"
    /\ {2, 3} \subseteq Present
    /\ 8 \in visited
    /\ Len(output.files) = 1

\* C6: a directory below src/ named node_modules, dist or .git is never
\* listed, nor is any directory below it; no file below it is opened, and
\* none is in scan_files' list.
C6_DirectoryPruning ==
    /\ \A d \in DirIds : InExcludedDir(d) => d \notin visited
    /\ \A s \in Present :
          InExcludedDir(FileTable[s].dir) =>
              /\ s \notin opened
              /\ rel_path_of(s) \notin Paths(files) \cup Paths(discovered)

\* a scan went past src/main/dist/x.ts and src/node_modules/pkg/index.ts
C6_Witness ==
    /\ pc = "done"
    /\ {4, 5} \subseteq Present
    /\ {1, 2, 3, 8, 9} \subseteq visited

\* the rules in their order: a label and the fragments that select it
Rules == <<
    [label |-> "IPC Handlers",        fragments |-> {f_ipc}],
    [label |-> "Stores",              fragments |-> {f_store, f_stores}],
    [label |-> "Pages",               fragments |-> {f_pages}],
    [label |-> "Main Services",       fragments |-> {f_main_services}],
    [label |-> "Renderer Components", fragments |-> {f_components, f_useSmartSearchWorkflow}],
    [label |-> "Preload",             fragments |-> {f_preload}],
    [label |-> "Shared",              fragments |-> {f_shared}],
    [label |-> "Renderer Other",      fragments |-> {f_renderer}],
    [label |-> "Main Other",          fragments |-> {f_main}] >>

Matching(path) ==
    {i \in DOMAIN Rules :
        \E frag \in Rules[i].fragments : Contains(frag, Replace(path, "\\", "/"))}

\* C7: categorize_file returns the label of the first rule, in the fixed
\* order, with a fragment in the path after backslashes became slashes, and
\* "Other" when no rule has one.
C7_FirstRuleWins ==
    (call.fn = "categorize_file" /\ call.ret # None) =>
        LET m == Matching(call.arg)
        IN IF m = {} THEN call.ret = "Other"
           ELSE call.ret = Rules[CHOOSE i \in m : \A j \in m : i <= j].label

\* a backslash path with fragments of three rules got the first one's label
C7_Witness ==
    /\ call.fn = "categorize_file"
    /\ call.ret = "Stores"
    /\ {2, 4, 9} \subseteq Matching(call.arg)
    /\ Contains(<<"\\">>, call.arg)

\* a path with no fragment of any rule got "Other"
C7_WitnessOther ==
    call.fn = "categorize_file" /\ call.ret = "Other" /\ Matching(call.arg) = {}

\* the line count open() and the line iteration give for what a file holds
ExpectedLines(kind) ==
    CASE kind = "L400" -> 400
      [] kind = "L500" -> 500
      [] kind = "L501" -> 501
      [] kind = "BIN"  -> 2
      [] OTHER         -> 0

RecordsOf(seq, s) == {i \in DOMAIN seq : seq[i].path = rel_path_of(s)}

\* C8 as stated: a file that cannot be opened, and a file of undecodable
\* bytes, are both recorded with zero lines.
C8_FailedReadIsZero ==
    pc = "done" =>
        \A s \in opened :
            fs.inode[s] \in {"EACCES", "BIN"} =>
                \A i \in RecordsOf(output.files, s) : output.files[i].lines = 0

\* C8 amended: no error of a file reaches the caller; a file that cannot be
\* opened is recorded once with zero lines; a file of undecodable bytes is
\* recorded once with the lines of what is left when those bytes are dropped;
\* every file is recorded with what it holds itself, whatever the others hold.
C8_OSErrorIsZero ==
    /\ pc # "crashed"
    /\ pc = "done" =>
          /\ Len(output.files) = Cardinality(opened)
          /\ \A s \in opened :
                /\ Cardinality(RecordsOf(output.files, s)) = 1
                /\ \A i \in RecordsOf(output.files, s) :
                      output.files[i].lines = ExpectedLines(fs.inode[s])

\* a file that could not be opened and a file of 501 lines were both recorded
C8_Witness ==
    /\ pc = "done"
    /\ exit_code = 0
    /\ \E s, t \in opened : fs.inode[s] = "EACCES" /\ fs.inode[t] = "L501"
    /\ Len(output.files) = 2

\* C9: the list scan_files returns is sorted by lines, largest first, and
\* files of equal lines are in the order they were discovered in.
C9_SortedStable ==
    Returned =>
        /\ Len(files) = Len(discovered)
        /\ \A i \in DOMAIN files : PositionsOf(discovered, files[i]) # {}
        /\ \A i, j \in DOMAIN files :
              i < j =>
                  /\ files[i].lines >= files[j].lines
                  /\ files[i].lines = files[j].lines =>
                        \A a \in PositionsOf(discovered, files[i]) :
                        \A b \in PositionsOf(discovered, files[j]) : a < b

\* two files of equal lines were returned
C9_WitnessTie ==
    /\ pc = "done"
    /\ Len(files) = 2
    /\ files[1].lines = files[2].lines

\* C10: the second run on the unchanged tree hands out what the first did.
C10_SecondRunIdentical ==
    (run = 2 /\ pc = "done") => output = prev

====
